---- MODULE Spec2Model ----
(***************************************************************************)
(* The selection engine of src/src/selectors.cc as a state machine.        *)
(*                                                                         *)
(* A buffer is a sequence of one-byte codepoints in which every line ends  *)
(* with "\n".  A BufferIterator is a byte offset 0..Len(buffer), the       *)
(* offset Len(buffer) being buffer.end().  A BufferCoord is <<line,        *)
(* column>>.  All text is ASCII, so one codepoint is one byte and          *)
(* utf8::next / utf8::previous move by one byte.                           *)
(***************************************************************************)
EXTENDS Integers, Sequences, FiniteSets, TLC

VARIABLES
    buffer,      \* the bytes of the buffer, each line ending with "\n"
    selection,   \* the current selection handed to single-selection selectors
    selections,  \* the SelectionList handed to list-level selectors
    result,      \* what the last call returned (an Optional, or the emitted Vector)
    call,        \* the last call: its name and its arguments
    wrapped,     \* the bool& wrapped out-parameter of find_next_match
    error        \* the message of the runtime_error thrown by the last call

vars == <<buffer, selection, selections, result, call, wrapped, error>>

(***************************************************************************)
(* Bounds of the model.                                                    *)
(***************************************************************************)
MaxSurroundLen == 5
MaxLevel == 1
MaxLinesLen == 4
MaxObjectLen == 4

(***************************************************************************)
(* Optional<T>, iterators and coordinates.                                 *)
(***************************************************************************)
None == [ok |-> FALSE]

Some(x) == [ok |-> TRUE, v |-> x]

\* *it for an iterator at byte offset i of the container s
At(s, i) == s[i + 1]

Reverse(s) == [k \in 1..Len(s) |-> s[Len(s) + 1 - k]]

SeqsUpTo(A, n) == UNION {[1..k -> A] : k \in 0..n}

\* number of lines: every line ends with "\n"
line_count(buf) == Cardinality({k \in 1..Len(buf) : buf[k] = "\n"})

\* the line that holds byte offset i
LineOf(buf, i) == Cardinality({k \in 1..i : buf[k] = "\n"})

\* buffer.iterator_at(line): the byte offset of column 0 of a line
LineStart(buf, l) ==
    IF l <= 0 THEN 0
    ELSE IF l > line_count(buf) THEN Len(buf)
    ELSE CHOOSE k \in 1..Len(buf) : buf[k] = "\n" /\ LineOf(buf, k) = l

\* buffer[line].length(), the trailing "\n" included
line_length(buf, l) == LineStart(buf, l + 1) - LineStart(buf, l)

\* BufferIterator::coord()
coord(buf, i) == <<LineOf(buf, i), i - LineStart(buf, LineOf(buf, i))>>

\* buffer.iterator_at(coord)
iterator_at(buf, c) == LineStart(buf, c[1]) + c[2]

\* operator<= and operator< of BufferCoord: lexicographic
CoordLE(a, b) == a[1] < b[1] \/ (a[1] = b[1] /\ a[2] <= b[2])

CoordLT(a, b) == a[1] < b[1] \/ (a[1] = b[1] /\ a[2] < b[2])

\* the coordinates of the bytes of the buffer
ValidCoords(buf) == {coord(buf, i) : i \in 0..(Len(buf) - 1)}

INT_MAX == 2147483647

\* Selection{anchor, cursor}: no target column, no captures
Sel(a, c) == [anchor |-> a, cursor |-> c, target |-> -1, captures |-> <<>>]

min(sel) == IF CoordLE(sel.anchor, sel.cursor) THEN sel.anchor ELSE sel.cursor

max(sel) == IF CoordLE(sel.anchor, sel.cursor) THEN sel.cursor ELSE sel.anchor

target_eol(sel) == [sel EXCEPT !.target = INT_MAX]

\* utf8_range(first, last) for two iterators
utf8_range(buf, first, last) == Sel(coord(buf, first), coord(buf, last))

ObjectFlags == (SUBSET {"ToBegin", "ToEnd", "Inner"}) \ {{}}

NoCall == [op |-> "none"]

(***************************************************************************)
(* find_closing, find_surrounding, select_surrounding.                     *)
(***************************************************************************)
\* std::equal(pat.begin(), pat.end(), pos), guarded by end - pos >= len
EqualAt(s, pos, end, pat) ==
    /\ end - pos >= Len(pat)
    /\ \A k \in 1..Len(pat) : At(s, pos + k - 1) = pat[k]

\* std::search(from, to, pat.begin(), pat.end()): first occurrence, or `to`
StdSearch(s, from, to, pat) ==
    LET hits == {i \in from..(to - Len(pat)) : EqualAt(s, i, to, pat)}
    IN IF hits = {} THEN to
       ELSE CHOOSE i \in hits : \A j \in hits : i <= j

\* the inner for loop of find_closing: occurrences of opening in [open, close)
RECURSIVE CountOpenings(_, _, _, _)
CountOpenings(s, open, close, opening) ==
    IF open = close THEN 0
    ELSE LET found == StdSearch(s, open, close, opening)
         IN IF found = close THEN 0
            ELSE 1 + CountOpenings(s, found + Len(opening), close, opening)

\* the while loop of find_closing
RECURSIVE FindClosingLoop(_, _, _, _, _, _, _)
FindClosingLoop(s, pos, end, opening, closing, level, nestable) ==
    IF pos = end THEN None
    ELSE LET close == StdSearch(s, pos, end, closing)
         IN IF close = end THEN None
            ELSE LET lvl == IF nestable
                            THEN level + CountOpenings(s, pos, close, opening)
                            ELSE level
                     next == close + Len(closing)
                 IN IF lvl = 0 THEN Some(next - 1)
                    ELSE FindClosingLoop(s, next, end, opening, closing,
                                         lvl - 1, nestable)

\* a find_closing that forgets to step over an opening found at pos
find_closing_no_skip(s, pos, end, opening, closing, init_level, nestable) ==
    FindClosingLoop(s, pos, end, opening, closing,
                    IF nestable THEN init_level ELSE 0, nestable)

find_closing(s, pos, end, opening, closing, init_level, nestable) ==
    LET level == IF nestable THEN init_level ELSE 0
        start == IF EqualAt(s, pos, end, opening) THEN pos + Len(opening) ELSE pos
    IN FindClosingLoop(s, start, end, opening, closing, level, nestable)

\* the tail of find_surrounding (lines 328-360) once the two searches are
\* made: back is the backward search's result (offset in the reversed
\* container), fwd the forward search's
SurroundingPair(n, pos, opening, closing, flags, search_back, back, fwd) ==
    LET to_begin == "ToBegin" \in flags
        to_end == "ToEnd" \in flags
        inner == "Inner" \in flags
    IN IF search_back /\ ~back.ok THEN None
       ELSE IF to_end /\ ~fwd.ok THEN None
       ELSE LET first0 == IF search_back THEN n - 1 - back.v ELSE pos
                last0 == IF to_end THEN fwd.v ELSE pos
                first == IF inner /\ to_begin /\ first0 # last0
                         THEN first0 + Len(opening) ELSE first0
                last == IF inner /\ to_end /\ first # last0
                        THEN last0 - Len(closing) ELSE last0
            IN IF to_end THEN Some(<<first, last>>) ELSE Some(<<last, first>>)

\* find_surrounding on a container s with the iterator pos; the result is
\* the pair <<first, second>> of iterators.  A StringView equals a char when
\* it is that one char; RevIt{pos+1} is offset n-1-pos of the reversed
\* container.
find_surrounding(s, pos, opening, closing, flags, init_level) ==
    SurroundingPair(Len(s), pos, opening, closing, flags,
        "ToBegin" \in flags /\ opening # <<At(s, pos)>>,
        find_closing(Reverse(s), Len(s) - 1 - pos, Len(s), Reverse(closing),
                     Reverse(opening), init_level, opening # closing),
        find_closing(s, pos, Len(s), opening, closing, init_level,
                     opening # closing))

\* utf8_range(res->first, res->second) of a present find_surrounding result
SurroundingRange(buf, res) ==
    IF res.ok THEN Some(utf8_range(buf, res.v[1], res.v[2])) ELSE None

\* lines 386-398 of select_surrounding: the pair found, or its parent when
\* the pair found is the current selection
SurroundingOrParent(sel, flags, found, parent) ==
    IF ~found.ok THEN None
    ELSE IF flags # {"ToBegin", "ToEnd"} \/ min(found.v) # min(sel)
            \/ max(found.v) # max(sel)
    THEN found
    ELSE parent

\* lines 379-382 of select_surrounding: the level after the pre-increment
SurroundingLevel(c, opening, closing, level, flags) ==
    IF (flags = {"ToBegin"} /\ <<c>> = opening) \/
       (flags = {"ToEnd"} /\ <<c>> = closing)
    THEN level + 1 ELSE level

\* lines 379-398 of select_surrounding, lev being the level to search at
SurroundingNestable(buf, sel, it, opening, closing, lev, flags) ==
    SurroundingOrParent(sel, flags,
        SurroundingRange(buf, find_surrounding(buf, it, opening, closing, flags, lev)),
        SurroundingRange(buf, find_surrounding(buf, it, opening, closing, flags, lev + 1)))

select_surrounding(buf, sel, opening, closing, level, flags) ==
    IF opening = closing \/ "Inner" \in flags
    THEN SurroundingRange(buf, find_surrounding(buf, iterator_at(buf, sel.cursor),
                                                opening, closing, flags, level))
    ELSE SurroundingNestable(buf, sel, iterator_at(buf, sel.cursor), opening, closing,
             SurroundingLevel(At(buf, iterator_at(buf, sel.cursor)), opening,
                              closing, level, flags),
             flags)

(***************************************************************************)
(* The surrounding-pair selectors applied to every small buffer.           *)
(***************************************************************************)
SurroundChars == {"[", "]", "x"}

\* a one-byte nestable pair, a two-byte nestable pair, a non-nestable pair
SurroundPairs == {<< <<"[">>, <<"]">> >>,
                  << <<"x", "[">>, <<"x", "]">> >>,
                  << <<"x">>, <<"x">> >>}

SurroundBuffers == {body \o <<"\n">> : body \in SeqsUpTo(SurroundChars, MaxSurroundLen)}

InitSurround ==
    /\ buffer \in SurroundBuffers
    /\ \E a \in ValidCoords(buffer), c \in ValidCoords(buffer) : selection = Sel(a, c)
    /\ selections = <<>>
    /\ result = None
    /\ call = NoCall
    /\ wrapped = FALSE
    /\ error = "none"

\* the editor applies select_surrounding to the current selection; an absent
\* result leaves the selection as it was
SelectSurrounding ==
    /\ call.op = "none"
    /\ \E p \in SurroundPairs, level \in 0..MaxLevel, flags \in ObjectFlags :
          LET res == select_surrounding(buffer, selection, p[1], p[2], level, flags)
          IN /\ result' = res
             /\ selection' = IF res.ok THEN res.v ELSE selection
             /\ call' = [op |-> "select_surrounding", sel |-> selection,
                         opening |-> p[1], closing |-> p[2],
                         level |-> level, flags |-> flags]
    /\ UNCHANGED <<buffer, selections, wrapped, error>>

\* find_surrounding called on the buffer's bytes as in test_find_surrounding
FindSurrounding ==
    /\ call.op = "none"
    /\ selection.anchor = selection.cursor
    /\ \E p \in SurroundPairs, level \in 0..MaxLevel, flags \in ObjectFlags :
          /\ result' = find_surrounding(buffer, iterator_at(buffer, selection.cursor),
                                        p[1], p[2], flags, level)
          /\ call' = [op |-> "find_surrounding",
                      pos |-> iterator_at(buffer, selection.cursor),
                      opening |-> p[1], closing |-> p[2],
                      level |-> level, flags |-> flags]
    /\ UNCHANGED <<buffer, selection, selections, wrapped, error>>

NextSurround == SelectSurrounding \/ FindSurrounding

SpecSurround == InitSurround /\ [][NextSurround]_vars

(***************************************************************************)
(* C1: for a nestable pair, every selection select_surrounding returns     *)
(* that spans from an opening to a closing delimiter (flags ToBegin|ToEnd  *)
(* without Inner) is balanced: inside the span the openings and closings   *)
(* match up pairwise.                                                      *)
(***************************************************************************)
\* the delimiters of s in [i, to) match up pairwise, starting at `depth`
RECURSIVE ScanBalanced(_, _, _, _, _, _)
ScanBalanced(s, i, to, opening, closing, depth) ==
    IF i >= to THEN depth = 0
    ELSE IF EqualAt(s, i, to, opening)
    THEN ScanBalanced(s, i + Len(opening), to, opening, closing, depth + 1)
    ELSE IF EqualAt(s, i, to, closing)
    THEN depth > 0 /\ ScanBalanced(s, i + Len(closing), to, opening, closing, depth - 1)
    ELSE ScanBalanced(s, i + 1, to, opening, closing, depth)

SpanBalanced(buf, sel, opening, closing) ==
    ScanBalanced(buf, iterator_at(buf, min(sel)), iterator_at(buf, max(sel)) + 1,
                 opening, closing, 0)

\* C1: a whole-pair result of select_surrounding for a nestable pair is balanced
C1_SurroundingBalanced ==
    (/\ call.op = "select_surrounding"
     /\ call.opening # call.closing
     /\ call.flags = {"ToBegin", "ToEnd"}
     /\ result.ok)
    => SpanBalanced(buffer, result.v, call.opening, call.closing)

(***************************************************************************)
(* C2: find_surrounding with a one-byte opener and closer and init_level 0 *)
(* returns the innermost enclosing pair.  The reference below is stated by *)
(* counting, not by scanning.                                              *)
(***************************************************************************)
CountIn(s, ch, a, b) == Cardinality({k \in a..b : At(s, k) = ch})

\* c closes the opener at o: the first closer after o with as many openers
\* as closers strictly between the two
Closes(s, o, c) ==
    /\ o < c /\ At(s, o) = "[" /\ At(s, c) = "]"
    /\ CountIn(s, "[", o + 1, c - 1) = CountIn(s, "]", o + 1, c - 1)
    /\ \A d \in (o + 1)..(c - 1) :
          ~(At(s, d) = "]" /\ CountIn(s, "[", o + 1, d - 1) = CountIn(s, "]", o + 1, d - 1))

\* the openers that are candidates for pos: pos itself on an opener, the
\* opener closed by pos on a closer, otherwise the openers before pos that
\* no closer before pos closes
RefOpeners(s, pos) ==
    IF At(s, pos) = "[" THEN {pos}
    ELSE IF At(s, pos) = "]" THEN {o \in 0..(pos - 1) : Closes(s, o, pos)}
    ELSE {o \in 0..(pos - 1) :
             At(s, o) = "[" /\ \A c \in (o + 1)..(pos - 1) : ~Closes(s, o, c)}

\* the nearest of them
RefOpener(s, pos) ==
    LET os == RefOpeners(s, pos)
    IN IF os = {} THEN None ELSE Some(CHOOSE o \in os : \A p \in os : p <= o)

RefCloser(s, o) ==
    LET cs == {c \in (o + 1)..(Len(s) - 1) : Closes(s, o, c)}
    IN IF cs = {} THEN None ELSE Some(CHOOSE c \in cs : TRUE)

RefSurrounding(s, pos, flags) ==
    LET o == RefOpener(s, pos)
    IN IF ~o.ok THEN None
       ELSE IF flags = {"ToBegin"} THEN Some(<<pos, o.v>>)
       ELSE LET c == RefCloser(s, o.v)
            IN IF c.ok THEN Some(<<o.v, c.v>>) ELSE None

C2Case ==
    /\ call.op = "find_surrounding"
    /\ call.opening = <<"[">> /\ call.closing = <<"]">>
    /\ call.level = 0
    /\ call.flags \in {{"ToBegin", "ToEnd"}, {"ToBegin"}}

\* C2: find_surrounding agrees with the innermost enclosing pair, and is
\* absent exactly when the reference has no opener or no closer
C2_FindSurroundingIsInnermostPair ==
    C2Case => result = RefSurrounding(buffer, call.pos, call.flags)

\* a cursor strictly inside a pair that itself holds a nested pair
C2_Witness ==
    /\ C2Case /\ call.flags = {"ToBegin", "ToEnd"} /\ result.ok
    /\ result.v[1] < call.pos /\ call.pos < result.v[2]
    /\ result.v[2] - result.v[1] >= 3
    /\ At(buffer, call.pos) = "x"
    /\ CountIn(buffer, "[", result.v[1] + 1, result.v[2] - 1) > 0

(***************************************************************************)
(* select_lines and trim_partial_lines.                                    *)
(***************************************************************************)
select_lines(buf, sel) ==
    LET fwd == CoordLE(sel.anchor, sel.cursor)
        to_line_start == IF fwd THEN sel.anchor ELSE sel.cursor
        to_line_end == IF fwd THEN sel.cursor ELSE sel.anchor
        start == <<to_line_start[1], 0>>
        end == <<to_line_end[1], line_length(buf, to_line_end[1]) - 1>>
    IN Some(target_eol(IF fwd THEN Sel(start, end) ELSE Sel(end, start)))

\* a trim_partial_lines that also drops a selection of exactly one byte
trim_partial_lines_strict(buf, sel) ==
    LET fwd == CoordLE(sel.anchor, sel.cursor)
        to_line_start == IF fwd THEN sel.anchor ELSE sel.cursor
        to_line_end == IF fwd THEN sel.cursor ELSE sel.anchor
        start == IF to_line_start[2] # 0 THEN <<to_line_start[1] + 1, 0>>
                 ELSE to_line_start
        partial_end == to_line_end[2] # line_length(buf, to_line_end[1]) - 1
        prev_line == to_line_end[1] - 1
        end == IF partial_end THEN <<prev_line, line_length(buf, prev_line) - 1>>
               ELSE to_line_end
    IN IF partial_end /\ to_line_end[1] = 0 THEN None
       ELSE IF CoordLE(end, start) THEN None
       ELSE Some(target_eol(IF fwd THEN Sel(start, end) ELSE Sel(end, start)))

\* a trim_partial_lines that leaves a partial first line in place
trim_partial_lines_keep_start(buf, sel) ==
    LET fwd == CoordLE(sel.anchor, sel.cursor)
        to_line_start == IF fwd THEN sel.anchor ELSE sel.cursor
        to_line_end == IF fwd THEN sel.cursor ELSE sel.anchor
        partial_end == to_line_end[2] # line_length(buf, to_line_end[1]) - 1
        prev_line == to_line_end[1] - 1
        end == IF partial_end THEN <<prev_line, line_length(buf, prev_line) - 1>>
               ELSE to_line_end
    IN IF partial_end /\ to_line_end[1] = 0 THEN None
       ELSE IF CoordLT(end, to_line_start) THEN None
       ELSE Some(target_eol(IF fwd THEN Sel(to_line_start, end)
                            ELSE Sel(end, to_line_start)))

trim_partial_lines(buf, sel) ==
    LET fwd == CoordLE(sel.anchor, sel.cursor)
        to_line_start == IF fwd THEN sel.anchor ELSE sel.cursor
        to_line_end == IF fwd THEN sel.cursor ELSE sel.anchor
        start == IF to_line_start[2] # 0 THEN <<to_line_start[1] + 1, 0>>
                 ELSE to_line_start
        partial_end == to_line_end[2] # line_length(buf, to_line_end[1]) - 1
        prev_line == to_line_end[1] - 1
        end == IF partial_end THEN <<prev_line, line_length(buf, prev_line) - 1>>
               ELSE to_line_end
    IN IF partial_end /\ to_line_end[1] = 0 THEN None
       ELSE IF CoordLT(end, start) THEN None
       ELSE Some(target_eol(IF fwd THEN Sel(start, end) ELSE Sel(end, start)))

(***************************************************************************)
(* The line selectors applied, one after the other, to every small buffer. *)
(***************************************************************************)
LineChars == {"a", "\n"}

LineBuffers == {body \o <<"\n">> : body \in SeqsUpTo(LineChars, MaxLinesLen)}

InitLines ==
    /\ buffer \in LineBuffers
    /\ \E a \in ValidCoords(buffer), c \in ValidCoords(buffer) : selection = Sel(a, c)
    /\ selections = <<>>
    /\ result = None
    /\ call = NoCall
    /\ wrapped = FALSE
    /\ error = "none"

\* at most two calls in a row are followed
LinesMayCall == IF call.op = "none" THEN TRUE ELSE call.prev.op = "none"

SelectLines ==
    /\ LinesMayCall
    /\ LET res == select_lines(buffer, selection)
       IN /\ result' = res
          /\ selection' = IF res.ok THEN res.v ELSE selection
          /\ call' = [op |-> "select_lines", sel |-> selection, prev |-> call]
    /\ UNCHANGED <<buffer, selections, wrapped, error>>

TrimPartialLines ==
    /\ LinesMayCall
    /\ LET res == trim_partial_lines(buffer, selection)
       IN /\ result' = res
          /\ selection' = IF res.ok THEN res.v ELSE selection
          /\ call' = [op |-> "trim_partial_lines", sel |-> selection, prev |-> call]
    /\ UNCHANGED <<buffer, selections, wrapped, error>>

\* utf8::previous(it, begin): one codepoint back, not past begin
utf8_previous(it, begin) == IF it = begin THEN it ELSE it - 1

\* select_to_line_end once end is computed (mutant: end may lie before begin)
LineEndSelection_backward(begin, end, only_move) ==
    Some(target_eol(Sel(IF only_move THEN end ELSE begin, end)))

LineEndSelection(begin, end, only_move) ==
    IF CoordLT(end, begin)
    THEN Some(target_eol(Sel(begin, begin)))
    ELSE Some(target_eol(Sel(IF only_move THEN end ELSE begin, end)))

select_to_line_end(buf, sel, only_move) ==
    LineEndSelection(sel.cursor,
        coord(buf, utf8_previous(
                      iterator_at(buf, <<sel.cursor[1],
                                         line_length(buf, sel.cursor[1]) - 1>>),
                      LineStart(buf, sel.cursor[1]))),
        only_move)

\* the two loops of select_line
RECURSIVE LineFirst(_, _)
LineFirst(s, first) ==
    IF first # 0 /\ At(s, first - 1) # "\n" THEN LineFirst(s, first - 1) ELSE first

RECURSIVE LineLast(_, _)
LineLast(s, last) ==
    IF last + 1 # Len(s) /\ At(s, last) # "\n" THEN LineLast(s, last + 1) ELSE last

\* select_line from the iterator first (mutant: a cursor on a newline stays
\* on its line)
LineFrom_no_step(s, first) ==
    Some(target_eol(utf8_range(s, LineFirst(s, first),
                               LineLast(s, LineFirst(s, first)))))

LineFrom(s, first) ==
    IF At(s, first) = "\n" /\ first + 1 # Len(s)
    THEN Some(target_eol(utf8_range(s, LineFirst(s, first + 1),
                                    LineLast(s, LineFirst(s, first + 1)))))
    ELSE Some(target_eol(utf8_range(s, LineFirst(s, first),
                                    LineLast(s, LineFirst(s, first)))))

select_line(buf, sel) == LineFrom(buf, iterator_at(buf, sel.cursor))

SelectToLineEnd ==
    /\ call.op = "none"
    /\ \E only_move \in BOOLEAN :
          /\ result' = select_to_line_end(buffer, selection, only_move)
          /\ call' = [op |-> "select_to_line_end", sel |-> selection,
                      only_move |-> only_move, prev |-> call]
    /\ selection' = IF result'.ok THEN result'.v ELSE selection
    /\ UNCHANGED <<buffer, selections, wrapped, error>>

SelectLine ==
    /\ call.op = "none"
    /\ result' = select_line(buffer, selection)
    /\ call' = [op |-> "select_line", sel |-> selection, prev |-> call]
    /\ selection' = IF result'.ok THEN result'.v ELSE selection
    /\ UNCHANGED <<buffer, selections, wrapped, error>>

NextLines == SelectLines \/ TrimPartialLines \/ SelectToLineEnd \/ SelectLine

SpecLines == InitLines /\ [][NextLines]_vars

(***************************************************************************)
(* C5: select_lines followed by trim_partial_lines is the identity on      *)
(* whole-line selections: select_lines returns the same anchor and cursor, *)
(* and trim_partial_lines applied to that result returns them again, never *)
(* an absent result.                                                       *)
(***************************************************************************)
WholeLines(buf, sel) ==
    /\ min(sel)[2] = 0
    /\ max(sel)[2] = line_length(buf, max(sel)[1]) - 1

SameEnds(res, sel) ==
    res.ok /\ res.v.anchor = sel.anchor /\ res.v.cursor = sel.cursor

\* C5: on a whole-line selection select_lines, and trim_partial_lines after
\* it, both return the anchor and the cursor they were given
C5_SelectLinesTrimIdentity ==
    /\ (call.op = "select_lines" /\ WholeLines(buffer, call.sel))
          => SameEnds(result, call.sel)
    /\ (/\ call.op = "trim_partial_lines"
        /\ call.prev.op = "select_lines"
        /\ WholeLines(buffer, call.prev.sel))
          => SameEnds(result, call.prev.sel)

\* both calls made on a backward selection of two whole lines
C5_Witness ==
    /\ call.op = "trim_partial_lines"
    /\ call.prev.op = "select_lines"
    /\ WholeLines(buffer, call.prev.sel)
    /\ CoordLT(call.prev.sel.cursor, call.prev.sel.anchor)
    /\ call.prev.sel.anchor[1] = call.prev.sel.cursor[1] + 1
    /\ SameEnds(result, call.prev.sel)

(***************************************************************************)
(* Character classes and skip_while / skip_while_reverse.                  *)
(***************************************************************************)
\* the codepoints the buffers of this model are made of
Letters == {"a", "x"}

Digits == {"1"}

Punctuation == {"-", ".", ",", ";", "(", ")", "[", "]", "{", "}"}

is_eol == {"\n"}

is_horizontal_blank == {" ", "\t"}

is_blank == is_horizontal_blank \cup is_eol

\* is_word<word_type>(c, extra_word_chars) as the set of the codepoints it accepts
is_word(word_type, extra_word_chars) ==
    IF word_type = "WORD" THEN (Letters \cup Digits \cup Punctuation)
    ELSE Letters \cup Digits \cup {"_"} \cup {extra_word_chars[k] : k \in DOMAIN extra_word_chars}

\* skip_while(it, end, pred): while (it != end and pred(*it)) ++it.
\* An iterator that runs past the last byte stays at buffer.end().
RECURSIVE skip_while(_, _, _, _)
skip_while(s, it, end, pred) ==
    IF it = end \/ it >= Len(s) THEN it
    ELSE IF At(s, it) \in pred THEN skip_while(s, it + 1, end, pred)
    ELSE it

\* skip_while_reverse(it, begin, pred): while (it != begin and pred(*it)) --it.
\* Offset -1 stands for every position before buffer.begin().
RECURSIVE skip_while_reverse(_, _, _, _)
skip_while_reverse(s, it, begin, pred) ==
    IF it = begin \/ it < 0 THEN it
    ELSE IF At(s, it) \in pred THEN skip_while_reverse(s, it - 1, begin, pred)
    ELSE it

(***************************************************************************)
(* select_word.                                                            *)
(***************************************************************************)
\* lines 153-158: first after the ToBegin branch
WordFirst(s, skipped, word) ==
    IF At(s, skipped) \notin word THEN skipped + 1 ELSE skipped

\* lines 159-165: last after the ToEnd branch
WordLast(s, cursor, flags, word) ==
    IF "Inner" \in flags
    THEN skip_while(s, cursor, Len(s), word) - 1
    ELSE skip_while(s, skip_while(s, cursor, Len(s), word), Len(s),
                    is_horizontal_blank) - 1

\* lines 166-167
DirectedRange(buf, flags, first, last) ==
    IF "ToEnd" \in flags THEN Some(utf8_range(buf, first, last))
    ELSE Some(utf8_range(buf, last, first))

select_word(buf, sel, word_type, extra_word_chars, flags) ==
    IF At(buf, iterator_at(buf, sel.cursor)) \notin is_word(word_type, extra_word_chars)
    THEN None
    ELSE DirectedRange(buf, flags,
            IF "ToBegin" \in flags
            THEN WordFirst(buf,
                     skip_while_reverse(buf, iterator_at(buf, sel.cursor), 0,
                                        is_word(word_type, extra_word_chars)),
                     is_word(word_type, extra_word_chars))
            ELSE iterator_at(buf, sel.cursor),
            IF "ToEnd" \in flags
            THEN WordLast(buf, iterator_at(buf, sel.cursor), flags,
                          is_word(word_type, extra_word_chars))
            ELSE iterator_at(buf, sel.cursor))

(***************************************************************************)
(* select_number.                                                          *)
(***************************************************************************)
\* the is_number lambda, lines 443-446
is_number(flags) == IF "Inner" \in flags THEN Digits ELSE Digits \cup {"."}

\* lines 458-460: first after the reverse skip
NumberFirst(s, skipped, flags) ==
    IF At(s, skipped) \notin is_number(flags) /\ At(s, skipped) # "-"
       /\ skipped + 1 # Len(s)
    THEN skipped + 1 ELSE skipped

\* lines 468-469: last after the forward skip
NumberLast(skipped) == IF skipped # 0 THEN skipped - 1 ELSE skipped

select_number(buf, sel, flags) ==
    IF At(buf, iterator_at(buf, sel.cursor)) \notin is_number(flags)
       /\ At(buf, iterator_at(buf, sel.cursor)) # "-"
    THEN None
    ELSE DirectedRange(buf, flags,
            IF "ToBegin" \in flags
            THEN NumberFirst(buf,
                     skip_while_reverse(buf, iterator_at(buf, sel.cursor), 0,
                                        is_number(flags)),
                     flags)
            ELSE iterator_at(buf, sel.cursor),
            IF "ToEnd" \in flags
            THEN NumberLast(skip_while(buf,
                     IF At(buf, iterator_at(buf, sel.cursor)) = "-"
                     THEN iterator_at(buf, sel.cursor) + 1
                     ELSE iterator_at(buf, sel.cursor),
                     Len(buf), is_number(flags)))
            ELSE iterator_at(buf, sel.cursor))

(***************************************************************************)
(* select_argument.  An iterator moved before buffer.begin() is written as *)
(* offset -1; its coordinate has column -1 and is no coordinate of the     *)
(* buffer.                                                                 *)
(***************************************************************************)
classify(c) ==
    IF c \in {"(", "[", "{"} THEN "Opening"
    ELSE IF c \in {")", "]", "}"} THEN "Closing"
    ELSE IF c \in {",", ";"} THEN "Delimiter"
    ELSE "None"

\* lines 719-726: pos after the initial adjustment
ArgumentPos(s, cursor) ==
    IF classify(At(s, cursor)) \in {"Opening", "Delimiter"} /\ cursor # 0
    THEN cursor - 1 ELSE cursor

\* lines 728-746, the backward loop: <<begin, first_arg>>
RECURSIVE ArgumentBegin(_, _, _)
ArgumentBegin(s, begin, lev) ==
    IF begin = 0 THEN <<begin, FALSE>>
    ELSE IF classify(At(s, begin)) = "Closing" THEN ArgumentBegin(s, begin - 1, lev + 1)
    ELSE IF classify(At(s, begin)) = "Opening"
    THEN IF lev = 0 THEN <<begin + 1, TRUE>>
         ELSE ArgumentBegin(s, begin - 1, lev - 1)
    ELSE IF classify(At(s, begin)) = "Delimiter" /\ lev = 0 THEN <<begin + 1, FALSE>>
    ELSE ArgumentBegin(s, begin - 1, lev)

\* lines 766-767: the blanks after the delimiter an argument ends on
RECURSIVE ArgumentBlanksAfter(_, _)
ArgumentBlanksAfter(s, end) ==
    IF end + 1 # Len(s) /\ At(s, end + 1) \in is_blank
    THEN ArgumentBlanksAfter(s, end + 1) ELSE end

\* lines 748-771, the forward loop: <<end, last_arg>>
RECURSIVE ArgumentEnd(_, _, _, _, _)
ArgumentEnd(s, pos, end, lev, keep_blanks) ==
    IF end = Len(s) THEN <<end, FALSE>>
    ELSE IF classify(At(s, end)) = "Opening"
    THEN ArgumentEnd(s, pos, end + 1, lev + 1, keep_blanks)
    ELSE IF end # pos /\ classify(At(s, end)) = "Closing"
    THEN IF lev = 0 THEN <<end - 1, TRUE>>
         ELSE ArgumentEnd(s, pos, end + 1, lev - 1, keep_blanks)
    ELSE IF classify(At(s, end)) = "Delimiter" /\ lev = 0
    THEN <<IF keep_blanks THEN ArgumentBlanksAfter(s, end) ELSE end, FALSE>>
    ELSE ArgumentEnd(s, pos, end + 1, lev, keep_blanks)

\* lines 773-779: <<begin, end>> after the Inner trimming, end being the
\* iterator after the --end of a non-last argument
ArgumentTrim(s, begin, end) ==
    <<skip_while(s, begin, end, is_blank),
      skip_while_reverse(s, end, skip_while(s, begin, end, is_blank), is_blank)>>

\* lines 773-785: <<begin, end>> from the results b and e of the two loops
ArgumentBounds(s, b, e, flags) ==
    IF "Inner" \in flags
    THEN ArgumentTrim(s, b[1], IF e[2] THEN e[1] ELSE e[1] - 1)
    ELSE IF ~b[2] /\ e[2] THEN <<b[1] - 1, e[1]>>
    ELSE <<b[1], e[1]>>

\* lines 784-790
ArgumentSelection(buf, pos, be, flags) ==
    IF "ToBegin" \in flags /\ "ToEnd" \notin flags
    THEN Some(Sel(coord(buf, pos), coord(buf, be[1])))
    ELSE Some(Sel(coord(buf, IF "ToBegin" \in flags THEN be[1] ELSE pos),
                  coord(buf, IF be[2] = Len(buf) THEN be[2] - 1 ELSE be[2])))

\* lines 728-790 from the adjusted pos and the result b of the backward loop
ArgumentFrom(buf, pos, b, level, flags) ==
    ArgumentSelection(buf, pos,
        ArgumentBounds(buf, b,
            ArgumentEnd(buf, pos, pos, level, b[2] /\ "Inner" \notin flags),
            flags),
        flags)

select_argument(buf, sel, level, flags) ==
    ArgumentFrom(buf, ArgumentPos(buf, iterator_at(buf, sel.cursor)),
        ArgumentBegin(buf, ArgumentPos(buf, iterator_at(buf, sel.cursor)), level),
        level, flags)

(***************************************************************************)
(* The text-object selectors applied to every small buffer.  They read the *)
(* cursor of the selection only.                                           *)
(***************************************************************************)
WordNumberChars == {"a", "1", "-", ".", " "}

ArgumentChars == {"a", " ", "(", ")", ","}

ObjectBuffers ==
    {body \o <<"\n">> : body \in SeqsUpTo(WordNumberChars, MaxObjectLen)
                                   \cup SeqsUpTo(ArgumentChars, MaxObjectLen)}

\* the extra_word_chars option
ExtraWordChars == {<<>>, <<"-">>}

InitObjects ==
    /\ buffer \in ObjectBuffers
    /\ \E c \in ValidCoords(buffer) : selection = Sel(c, c)
    /\ selections = <<>>
    /\ result = None
    /\ call = NoCall
    /\ wrapped = FALSE
    /\ error = "none"

SelectWord ==
    /\ call.op = "none"
    /\ \E word_type \in {"Word", "WORD"}, extra \in ExtraWordChars, flags \in ObjectFlags :
          /\ result' = select_word(buffer, selection, word_type, extra, flags)
          /\ call' = [op |-> "select_word", sel |-> selection, word_type |-> word_type,
                      extra_word_chars |-> extra, flags |-> flags]
    /\ selection' = IF result'.ok THEN result'.v ELSE selection
    /\ UNCHANGED <<buffer, selections, wrapped, error>>

SelectNumber ==
    /\ call.op = "none"
    /\ \E flags \in ObjectFlags :
          /\ result' = select_number(buffer, selection, flags)
          /\ call' = [op |-> "select_number", sel |-> selection, flags |-> flags]
    /\ selection' = IF result'.ok THEN result'.v ELSE selection
    /\ UNCHANGED <<buffer, selections, wrapped, error>>

SelectArgument ==
    /\ call.op = "none"
    /\ \E level \in 0..MaxLevel, flags \in ObjectFlags :
          /\ result' = select_argument(buffer, selection, level, flags)
          /\ call' = [op |-> "select_argument", sel |-> selection, level |-> level,
                      flags |-> flags]
    /\ selection' = IF result'.ok THEN result'.v ELSE selection
    /\ UNCHANGED <<buffer, selections, wrapped, error>>

NextObjects == SelectWord \/ SelectNumber \/ SelectArgument

SpecObjects == InitObjects /\ [][NextObjects]_vars

(***************************************************************************)
(* C6: a present result of select_word, select_number or select_argument   *)
(* has anchor <= cursor when the flags contain ToEnd, and cursor <= anchor *)
(* when they contain ToBegin but not ToEnd.                                *)
(***************************************************************************)
Directed(sel, flags) ==
    /\ "ToEnd" \in flags => CoordLE(sel.anchor, sel.cursor)
    /\ ("ToBegin" \in flags /\ "ToEnd" \notin flags) => CoordLE(sel.cursor, sel.anchor)

\* C6: the text objects keep the direction their flags ask for (stated for
\* the results whose two ends are coordinates of the buffer)
C6_ObjectDirection ==
    (/\ call.op \in {"select_word", "select_number", "select_argument"}
     /\ result.ok
     /\ result.v.anchor \in ValidCoords(buffer)
     /\ result.v.cursor \in ValidCoords(buffer))
    => Directed(result.v, call.flags)

(***************************************************************************)
(* C7: the selection select_argument returns has its anchor and its cursor *)
(* at existing buffer positions.                                           *)
(***************************************************************************)
\* C7: both ends of a select_argument result are coordinates of the buffer
C7_ArgumentInBuffer ==
    (call.op = "select_argument" /\ result.ok)
    => /\ result.v.anchor \in ValidCoords(buffer)
       /\ result.v.cursor \in ValidCoords(buffer)

(***************************************************************************)
(* Regex collaborator.  The engine is not part of selectors.cc; it is      *)
(* modelled for five concrete patterns over the characters "a" and ",";    *)
(* only the last one looks at text outside its match:                      *)
(*    ","      one comma                        (mark_count 0)             *)
(*    "(a),"   an "a" then a comma, group 1 = the "a"    (mark_count 1)    *)
(*    "a*"     the longest run of "a", possibly empty    (mark_count 0)    *)
(*    "|a"     the empty string, else one "a"            (mark_count 0)    *)
(*    "^"      the empty string at a line start: at the buffer start and   *)
(*             after every newline, the buffer end included (mark_count 0) *)
(* A match is the sequence of its sub-matches <<first, second>> (half-open *)
(* offsets): element 1 is the whole match, element k + 1 is group k.       *)
(***************************************************************************)
MaxRegexLen == 4
MaxSelections == 2

Regexes ==
    { [str |-> ",",    mark_count |-> 0],
      [str |-> "(a),", mark_count |-> 1],
      [str |-> "a*",   mark_count |-> 0],
      [str |-> "|a",   mark_count |-> 0],
      [str |-> "^",    mark_count |-> 0] }

\* offset f of s is a line start
is_line_start(s, f) == IF f = 0 THEN TRUE ELSE At(s, f - 1) = "\n"

\* number of consecutive "a" in s from offset f on, before offset e
RECURSIVE RunForward(_, _, _)
RunForward(s, f, e) ==
    IF f < e /\ At(s, f) = "a" THEN 1 + RunForward(s, f + 1, e) ELSE 0

\* number of consecutive "a" in s that end at offset t, not before offset b
RECURSIVE RunBackward(_, _, _)
RunBackward(s, t, b) ==
    IF t > b /\ At(s, t - 1) = "a" THEN 1 + RunBackward(s, t - 1, b) ELSE 0

\* the match of re that starts at f and stays before e; no_empty refuses an
\* empty match
MatchAt(re, s, f, e, no_empty) ==
    CASE re.str = "," ->
           IF f < e /\ At(s, f) = "," THEN Some(<< <<f, f + 1>> >>) ELSE None
      [] re.str = "(a)," ->
           IF f + 1 < e /\ At(s, f) = "a" /\ At(s, f + 1) = ","
           THEN Some(<< <<f, f + 2>>, <<f, f + 1>> >>) ELSE None
      [] re.str = "a*" ->
           IF RunForward(s, f, e) = 0 /\ no_empty THEN None
           ELSE Some(<< <<f, f + RunForward(s, f, e)>> >>)
      [] re.str = "|a" ->
           IF ~no_empty THEN Some(<< <<f, f>> >>)
           ELSE IF f < e /\ At(s, f) = "a" THEN Some(<< <<f, f + 1>> >>)
           ELSE None
      [] re.str = "^" ->
           IF is_line_start(s, f) /\ ~no_empty THEN Some(<< <<f, f>> >>) ELSE None

\* the match of re that ends at t and stays at or after b
MatchBackAt(re, s, t, b, no_empty) ==
    CASE re.str = "," ->
           IF t > b /\ At(s, t - 1) = "," THEN Some(<< <<t - 1, t>> >>) ELSE None
      [] re.str = "(a)," ->
           IF t - 1 > b /\ At(s, t - 2) = "a" /\ At(s, t - 1) = ","
           THEN Some(<< <<t - 2, t>>, <<t - 2, t - 1>> >>) ELSE None
      [] re.str = "a*" ->
           IF RunBackward(s, t, b) = 0 /\ no_empty THEN None
           ELSE Some(<< <<t - RunBackward(s, t, b), t>> >>)
      [] re.str = "|a" ->
           IF ~no_empty THEN Some(<< <<t, t>> >>)
           ELSE IF t > b /\ At(s, t - 1) = "a" THEN Some(<< <<t - 1, t>> >>)
           ELSE None
      [] re.str = "^" ->
           IF is_line_start(s, t) /\ ~no_empty THEN Some(<< <<t, t>> >>) ELSE None

\* regex_search forward over [b, e): the match with the leftmost start;
\* NotInitialNull refuses an empty match at b
RECURSIVE SearchFrom(_, _, _, _, _, _)
SearchFrom(re, s, f, b, e, not_initial_null) ==
    IF f > e THEN None
    ELSE IF MatchAt(re, s, f, e, not_initial_null /\ f = b).ok
         THEN MatchAt(re, s, f, e, not_initial_null /\ f = b)
         ELSE SearchFrom(re, s, f + 1, b, e, not_initial_null)

regex_search(s, b, e, re, not_initial_null) ==
    SearchFrom(re, s, b, b, e, not_initial_null)

\* regex_search<Backward> over [b, e): the match with the rightmost end;
\* NotInitialNull refuses an empty match at e
RECURSIVE SearchBackFrom(_, _, _, _, _, _)
SearchBackFrom(re, s, t, b, e, not_initial_null) ==
    IF t < b THEN None
    ELSE IF MatchBackAt(re, s, t, b, not_initial_null /\ t = e).ok
         THEN MatchBackAt(re, s, t, b, not_initial_null /\ t = e)
         ELSE SearchBackFrom(re, s, t - 1, b, e, not_initial_null)

regex_search_backward(s, b, e, re, not_initial_null) ==
    SearchBackFrom(re, s, e, b, e, not_initial_null)

\* RegexIterator over [b, e): the first search starts at b; each further one
\* starts where the previous match ended, with NotInitialNull when that
\* match was empty
RECURSIVE RegexItFrom(_, _, _, _, _)
RegexItNext(s, re, e, found) ==
    IF found.ok
    THEN <<found.v>> \o RegexItFrom(s, re, found.v[1][2], e,
                                    found.v[1][1] = found.v[1][2])
    ELSE <<>>

RegexItFrom(s, re, next_pos, e, not_initial_null) ==
    RegexItNext(s, re, e, regex_search(s, next_pos, e, re, not_initial_null))

RegexIt(s, b, e, re) == RegexItFrom(s, re, b, e, FALSE)

(***************************************************************************)
(* select_all_matches and split_selections                                 *)
(***************************************************************************)
\* keep_direction: the selection res, turned to point the way ref points
keep_direction(res, ref) ==
    IF CoordLT(res.cursor, res.anchor) # CoordLT(ref.cursor, ref.anchor)
    THEN [res EXCEPT !.anchor = res.cursor, !.cursor = res.anchor]
    ELSE res

\* the strings of all sub-matches of the match m
Captures(buf, m) == [k \in 1..Len(m) |-> SubSeq(buf, m[k][1] + 1, m[k][2])]

\* the inclusive last offset of the half-open range [begin, end)
LastOf(begin, end) == IF begin = end THEN end ELSE end - 1

\* the offset one codepoint past the max of sel, saturating at the buffer end
SelEnd(buf, sel) ==
    IF iterator_at(buf, max(sel)) + 1 > Len(buf) THEN Len(buf)
    ELSE iterator_at(buf, max(sel)) + 1

\* the selection pushed for one match
MatchSelection(buf, sel, m, capture) ==
    keep_direction([Sel(coord(buf, m[capture + 1][1]),
                        coord(buf, LastOf(m[capture + 1][1], m[capture + 1][2])))
                      EXCEPT !.captures = Captures(buf, m)], sel)

\* the selections pushed for the matches ms found inside sel; a match whose
\* capture starts at sel_end is skipped (mutant: skipped by its end)
SelectMatchesIn_skip_by_end(buf, sel, sel_end, capture, ms) ==
    LET kept == SelectSeq(ms, LAMBDA m : m[capture + 1][2] # sel_end)
    IN  [k \in 1..Len(kept) |-> MatchSelection(buf, sel, kept[k], capture)]

SelectMatchesIn(buf, sel, sel_end, capture, ms) ==
    LET kept == SelectSeq(ms, LAMBDA m : m[capture + 1][1] # sel_end)
    IN  [k \in 1..Len(kept) |-> MatchSelection(buf, sel, kept[k], capture)]

\* the loop over the selections k, k + 1, ... of sels
RECURSIVE AllMatches(_, _, _, _, _)
AllMatches(buf, sels, k, re, capture) ==
    IF k > Len(sels) THEN <<>>
    ELSE SelectMatchesIn(buf, sels[k], SelEnd(buf, sels[k]), capture,
                         RegexIt(buf, iterator_at(buf, min(sels[k])),
                                 SelEnd(buf, sels[k]), re))
         \o AllMatches(buf, sels, k + 1, re, capture)

\* the capture number check both operations start with (mutant: a capture
\* equal to mark_count is refused too)
invalid_capture_strict(re, capture) == capture < 0 \/ capture >= re.mark_count

invalid_capture(re, capture) == capture < 0 \/ capture > re.mark_count

\* the outcome for the pushed vector res; assigned is the list the selection
\* list becomes when res is not empty
ListOutcome(sels, res, assigned) ==
    IF res = <<>>
    THEN [error |-> "nothing selected", result |-> res, selections |-> sels]
    ELSE [error |-> "none", result |-> res, selections |-> assigned]

select_all_matches(buf, sels, re, capture) ==
    IF invalid_capture(re, capture)
    THEN [error |-> "invalid capture number", result |-> <<>>, selections |-> sels]
    ELSE ListOutcome(sels, AllMatches(buf, sels, 1, re, capture),
                     AllMatches(buf, sels, 1, re, capture))

\* the body of split_selections' loop over the matches k, k + 1, ... of one
\* selection; begin is where the current gap starts (mutant of the push: the
\* gap runs through the first codepoint of the match)
RECURSIVE SplitLoop(_, _, _, _, _, _)
SplitGap_through_end(buf, sel, begin, end) ==
    IF end # 0
    THEN <<keep_direction(Sel(coord(buf, begin), coord(buf, end)), sel)>>
    ELSE <<>>

SplitGap(buf, sel, begin, end) ==
    IF end # 0
    THEN <<keep_direction(Sel(coord(buf, begin), coord(buf, LastOf(begin, end))), sel)>>
    ELSE <<>>

SplitTail(buf, sel, begin) ==
    IF CoordLE(coord(buf, begin), max(sel))
    THEN <<keep_direction(Sel(coord(buf, begin), max(sel)), sel)>>
    ELSE <<>>

SplitLoop(buf, sel, ms, k, begin, capture) ==
    IF k > Len(ms) THEN SplitTail(buf, sel, begin)
    ELSE IF ms[k][capture + 1][1] = Len(buf)
         THEN SplitLoop(buf, sel, ms, k + 1, begin, capture)
         ELSE SplitGap(buf, sel, begin, ms[k][capture + 1][1])
              \o SplitLoop(buf, sel, ms, k + 1, ms[k][capture + 1][2], capture)

\* the loop over the selections k, k + 1, ... of sels
RECURSIVE AllGaps(_, _, _, _, _)
AllGaps(buf, sels, k, re, capture) ==
    IF k > Len(sels) THEN <<>>
    ELSE SplitLoop(buf, sels[k],
                   RegexIt(buf, iterator_at(buf, min(sels[k])),
                           SelEnd(buf, sels[k]), re),
                   1, iterator_at(buf, min(sels[k])), capture)
         \o AllGaps(buf, sels, k + 1, re, capture)

\* SelectionList::operator=(Vector<Selection>): a stable sort by min, then
\* every selection that overlaps the one kept before it is merged into it
compare_selections(a, b) == CoordLT(min(a), min(b))

RECURSIVE InsertSorted(_, _)
InsertSorted(l, x) ==
    IF l = <<>> THEN <<x>>
    ELSE IF compare_selections(x, l[Len(l)])
         THEN InsertSorted(SubSeq(l, 1, Len(l) - 1), x) \o <<l[Len(l)]>>
         ELSE l \o <<x>>

RECURSIVE SortSelections(_)
SortSelections(l) ==
    IF l = <<>> THEN <<>>
    ELSE InsertSorted(SortSelections(SubSeq(l, 1, Len(l) - 1)), l[Len(l)])

overlaps(a, b) == CoordLE(min(a), max(b)) /\ CoordLE(min(b), max(a))

MergedAnchor(a, b) ==
    IF CoordLT(a.anchor, b.cursor)
    THEN (IF CoordLE(a.anchor, b.anchor) THEN a.anchor ELSE b.anchor)
    ELSE IF CoordLT(b.cursor, a.anchor)
         THEN (IF CoordLE(b.anchor, a.anchor) THEN a.anchor ELSE b.anchor)
         ELSE a.anchor

merge_with(a, b) == [a EXCEPT !.cursor = b.cursor, !.anchor = MergedAnchor(a, b)]

RECURSIVE merge_overlapping(_, _, _)
merge_overlapping(kept, l, j) ==
    IF j > Len(l) THEN kept
    ELSE IF overlaps(kept[Len(kept)], l[j])
         THEN merge_overlapping([kept EXCEPT ![Len(kept)] = merge_with(kept[Len(kept)], l[j])],
                                l, j + 1)
         ELSE merge_overlapping(kept \o <<l[j]>>, l, j + 1)

SortAndMerge(l) ==
    IF l = <<>> THEN <<>>
    ELSE merge_overlapping(<<SortSelections(l)[1]>>, SortSelections(l), 2)

split_selections(buf, sels, re, capture) ==
    IF invalid_capture(re, capture)
    THEN [error |-> "invalid capture number", result |-> <<>>, selections |-> sels]
    ELSE ListOutcome(sels, AllGaps(buf, sels, 1, re, capture),
                     SortAndMerge(AllGaps(buf, sels, 1, re, capture)))

(***************************************************************************)
(* find_next_match                                                         *)
(***************************************************************************)
\* format("'{}': no matches found", regex.str())
NoMatchesFound(re) ==
    CASE re.str = ","    -> "',': no matches found"
      [] re.str = "(a)," -> "'(a),': no matches found"
      [] re.str = "a*"   -> "'a*': no matches found"
      [] re.str = "|a"   -> "'|a': no matches found"
      [] re.str = "^"    -> "'^': no matches found"

\* find_next; first is the search of [pos, end) (mutant: wrapped is not set)
find_next_no_wrap(buf, pos, re, first) ==
    IF pos # Len(buf) /\ first.ok
    THEN [found |-> first, wrapped |-> FALSE]
    ELSE [found |-> regex_search(buf, 0, Len(buf), re, FALSE), wrapped |-> FALSE]

find_next(buf, pos, re, first) ==
    IF pos # Len(buf) /\ first.ok
    THEN [found |-> first, wrapped |-> FALSE]
    ELSE [found |-> regex_search(buf, 0, Len(buf), re, FALSE), wrapped |-> TRUE]

\* find_prev; first is the backward search of [begin, pos)
find_prev(buf, pos, re, first) ==
    IF pos # 0 /\ first.ok
    THEN [found |-> first, wrapped |-> FALSE]
    ELSE [found |-> regex_search_backward(buf, 0, Len(buf), re, TRUE), wrapped |-> TRUE]

\* the selection built from the match m
FoundSelection(buf, m, direction) ==
    IF direction = "Backward"
    THEN [Sel(coord(buf, LastOf(m[1][1], m[1][2])), coord(buf, m[1][1]))
            EXCEPT !.captures = Captures(buf, m)]
    ELSE [Sel(coord(buf, m[1][1]), coord(buf, LastOf(m[1][1], m[1][2])))
            EXCEPT !.captures = Captures(buf, m)]

FoundOutcome(buf, re, direction, f) ==
    IF ~f.found.ok
    THEN [wrapped |-> f.wrapped, error |-> NoMatchesFound(re), result |-> None]
    ELSE IF f.found.v[1][1] = Len(buf)
         THEN [wrapped |-> f.wrapped, error |-> NoMatchesFound(re), result |-> None]
         ELSE [wrapped |-> f.wrapped, error |-> "none",
               result |-> Some(FoundSelection(buf, f.found.v, direction))]

\* the search origin: one codepoint past max (Forward), min (Backward)
SearchOrigin(buf, sel, direction) ==
    IF direction = "Backward" THEN iterator_at(buf, min(sel)) ELSE SelEnd(buf, sel)

find_next_match(buf, sel, re, direction) ==
    IF direction = "Forward"
    THEN FoundOutcome(buf, re, direction,
             find_next(buf, SelEnd(buf, sel), re,
                       IF SelEnd(buf, sel) # Len(buf)
                       THEN regex_search(buf, SelEnd(buf, sel), Len(buf), re, FALSE)
                       ELSE None))
    ELSE FoundOutcome(buf, re, direction,
             find_prev(buf, iterator_at(buf, min(sel)), re,
                       IF iterator_at(buf, min(sel)) # 0
                       THEN regex_search_backward(buf, 0, iterator_at(buf, min(sel)), re, TRUE)
                       ELSE None))

(***************************************************************************)
(* Specification of the regex driven operations: one of them is applied    *)
(* once to a buffer of "a" and "," that ends with a newline and to a       *)
(* selection list that is sorted and pairwise non-overlapping.             *)
(***************************************************************************)
RegexChars == {"a", ","}

RegexBuffers == {body \o <<"\n">> : body \in SeqsUpTo(RegexChars, MaxRegexLen)}

CaptureNumbers == {-1, 0, 1, 2}

Directions == {"Forward", "Backward"}

SortedDisjoint(l) ==
    \A k \in 1..(Len(l) - 1) : CoordLT(max(l[k]), min(l[k + 1]))

SelectionLists(buf) ==
    {l \in SeqsUpTo({Sel(a, c) : a, c \in ValidCoords(buf)}, MaxSelections) :
        l # <<>> /\ SortedDisjoint(l)}

InitRegex ==
    /\ buffer \in RegexBuffers
    /\ selections \in SelectionLists(buffer)
    /\ selection = selections[1]
    /\ result = None
    /\ call = NoCall
    /\ wrapped = FALSE
    /\ error = "none"

ApplyListOperation(op, re, capture, out) ==
    /\ result' = out.result
    /\ error' = out.error
    /\ selections' = out.selections
    /\ call' = [op |-> op, sels |-> selections, regex |-> re, capture |-> capture]
    /\ UNCHANGED <<buffer, selection, wrapped>>

SelectAllMatches ==
    /\ call.op = "none"
    /\ \E re \in Regexes, capture \in CaptureNumbers :
          ApplyListOperation("select_all_matches", re, capture,
                             select_all_matches(buffer, selections, re, capture))

SplitSelections ==
    /\ call.op = "none"
    /\ \E re \in Regexes, capture \in CaptureNumbers :
          ApplyListOperation("split_selections", re, capture,
                             split_selections(buffer, selections, re, capture))

ApplyFindNextMatch(sel, re, direction, out) ==
    /\ result' = out.result
    /\ error' = out.error
    /\ wrapped' = out.wrapped
    /\ call' = [op |-> "find_next_match", sel |-> sel, regex |-> re,
                direction |-> direction]
    /\ UNCHANGED <<buffer, selection, selections>>

FindNextMatch ==
    /\ call.op = "none"
    /\ \E k \in DOMAIN selections, re \in Regexes, direction \in Directions :
          ApplyFindNextMatch(selections[k], re, direction,
                             find_next_match(buffer, selections[k], re, direction))

NextRegex == SelectAllMatches \/ SplitSelections \/ FindNextMatch

SpecRegex == InitRegex /\ [][NextRegex]_vars

(***************************************************************************)
(* C3: after a successful select_all_matches the selection list is sorted  *)
(* by min and its selections are pairwise non-overlapping, whatever the    *)
(* matches the iterator produces, empty ones included.                     *)
(***************************************************************************)
\* C3: a successful select_all_matches leaves a sorted, non-overlapping list
C3_AllMatchesSortedDisjoint ==
    (call.op = "select_all_matches" /\ error = "none")
    => SortedDisjoint(selections)

(***************************************************************************)
(* C4: split_selections emits only text of the input selections that lies  *)
(* outside every match of the chosen capture.                              *)
(***************************************************************************)
\* the offsets covered by the selection r
Covered(buf, r) == iterator_at(buf, min(r))..iterator_at(buf, max(r))

\* the matches the iterator finds inside the k-th selection of sels
MatchesOf(buf, sels, k, re) ==
    RegexIt(buf, iterator_at(buf, min(sels[k])), SelEnd(buf, sels[k]), re)

\* the offsets that belong to the chosen capture of a match inside any of sels
MatchedOffsets(buf, sels, re, capture) ==
    UNION { UNION { m[capture + 1][1]..(m[capture + 1][2] - 1) :
                      m \in {MatchesOf(buf, sels, k, re)[j] :
                               j \in 1..Len(MatchesOf(buf, sels, k, re))} } :
            k \in DOMAIN sels }

\* r is text of one of the selections sels that no match covers
IsGap(buf, sels, matched, r) ==
    /\ \E k \in DOMAIN sels : Covered(buf, r) \subseteq Covered(buf, sels[k])
    /\ Covered(buf, r) \cap matched = {}

\* C4 as stated: every selection split_selections emits is a gap
C4_SplitEmitsOnlyGaps ==
    (call.op = "split_selections" /\ error = "none")
    => \A i \in DOMAIN result :
          IsGap(buffer, call.sels,
                MatchedOffsets(buffer, call.sels, call.regex, call.capture),
                result[i])

\* p is, in the k-th selection, the start of a capture that has an empty gap
\* before it: the previous capture ended at p, or p is the selection's min
EmptyGapAt(buf, sels, k, re, capture, p) ==
    /\ p # 0
    /\ \E j \in 1..Len(MatchesOf(buf, sels, k, re)) :
          /\ MatchesOf(buf, sels, k, re)[j][capture + 1][1] = p
          /\ \/ p = iterator_at(buf, min(sels[k]))
             \/ \E i \in 1..(j - 1) :
                   MatchesOf(buf, sels, k, re)[i][capture + 1][2] = p

\* C4 amended: an emitted selection of several codepoints is a gap; one of a
\* single codepoint is a gap or stands at a capture start with an empty gap
\* before it
C4_SplitEmitsGapsOrEmptyGapMarks ==
    (call.op = "split_selections" /\ error = "none")
    => \A i \in DOMAIN result :
          \/ IsGap(buffer, call.sels,
                   MatchedOffsets(buffer, call.sels, call.regex, call.capture),
                   result[i])
          \/ /\ result[i].anchor = result[i].cursor
             /\ \E k \in DOMAIN call.sels :
                   EmptyGapAt(buffer, call.sels, k, call.regex, call.capture,
                              iterator_at(buffer, result[i].anchor))

\* a split on "," of text with two adjacent commas: the second comma is
\* emitted for the empty gap, next to real gaps
C4_Witness ==
    /\ call.op = "split_selections" /\ error = "none"
    /\ call.regex.str = "," /\ call.capture = 0
    /\ Len(call.sels) = 1
    /\ Len(result) >= 3
    /\ \E i \in DOMAIN result :
          /\ result[i].anchor = result[i].cursor
          /\ At(buffer, iterator_at(buffer, result[i].anchor)) = ","

(***************************************************************************)
(* C8: when find_next_match returns with wrapped set, the match is on the  *)
(* other side of the search origin: it starts at or before the origin      *)
(* (Forward), it lies at or after the origin (Backward); when wrapped is   *)
(* not set the match is in the initial window: at or after the origin      *)
(* (Forward), entirely before it (Backward).                               *)
(***************************************************************************)
\* the offsets of the first and the last codepoint of the returned match
FoundFirst == iterator_at(buffer, min(result.v))
FoundLast == iterator_at(buffer, max(result.v))

FoundCase(direction, wrap) ==
    /\ call.op = "find_next_match"
    /\ call.direction = direction
    /\ result.ok
    /\ wrapped = wrap

RECURSIVE MatchCount(_, _, _, _)
MatchCount(buf, sels, k, re) ==
    IF k > Len(sels) THEN 0
    ELSE Len(MatchesOf(buf, sels, k, re)) + MatchCount(buf, sels, k + 1, re)

NoEmptyMatch(re) == re.str \in {",", "(a),"}

C9Case ==
    /\ call.op = "select_all_matches"
    /\ NoEmptyMatch(call.regex)
    /\ call.capture = 0

\* C9: one selection per match, none dropped, none twice
C9_AllMatchesCount ==
    C9Case =>
      /\ error = "none"
           => /\ Len(selections) = MatchCount(buffer, call.sels, 1, call.regex)
              /\ \A i, j \in DOMAIN selections : i # j => selections[i] # selections[j]
      /\ error # "none" => MatchCount(buffer, call.sels, 1, call.regex) = 0

C9_Witness ==
    /\ C9Case
    /\ error = "none"
    /\ Len(call.sels) = 2
    /\ Len(selections) >= 3

(***************************************************************************)
(* C10: select_all_matches and split_selections fail with "invalid capture *)
(* number" exactly when capture < 0 or capture > mark_count, with "nothing *)
(* selected" exactly when nothing is pushed, and a failing call leaves the *)
(* selection list as it was.                                               *)
(***************************************************************************)
\* the vector the call pushes its selections to
Pushed ==
    IF call.op = "select_all_matches"
    THEN AllMatches(buffer, call.sels, 1, call.regex, call.capture)
    ELSE AllGaps(buffer, call.sels, 1, call.regex, call.capture)

CaptureInRange == call.capture >= 0 /\ call.capture <= call.regex.mark_count

\* C10: the two errors and the untouched list
C10_ListErrors ==
    call.op \in {"select_all_matches", "split_selections"} =>
      /\ error \in {"none", "invalid capture number", "nothing selected"}
      /\ (error = "invalid capture number") <=> ~CaptureInRange
      /\ (error = "nothing selected") <=> (CaptureInRange /\ Pushed = <<>>)
      /\ error # "none" => selections = call.sels

C10_Witness ==
    /\ call.op = "split_selections"
    /\ error = "nothing selected"
    /\ call.capture = call.regex.mark_count
    /\ selections = call.sels

(***************************************************************************)
(* C11: find_next_match<Forward> fails with the "no matches found" message *)
(* exactly when the whole buffer holds no match that starts before the     *)
(* buffer end; otherwise it returns a selection, wrapping when the match   *)
(* is only before the current selection.                                   *)
(***************************************************************************)
\* re has a match in buf that starts before the buffer end
MatchBeforeEnd(buf, re) ==
    \E f \in 0..(Len(buf) - 1) : MatchAt(re, buf, f, Len(buf), FALSE).ok

\* C11: the Forward search fails exactly when the buffer has no match
C11_ForwardFailsOnlyWithoutMatch ==
    (call.op = "find_next_match" /\ call.direction = "Forward")
    => /\ result.ok <=> MatchBeforeEnd(buffer, call.regex)
       /\ result.ok <=> error = "none"
       /\ ~result.ok => error = NoMatchesFound(call.regex)

(***************************************************************************)
(* C12: select_surrounding for a nestable pair with flags ToBegin|ToEnd:   *)
(* when the pair found at the requested level is the current selection,    *)
(* the result is the next enclosing pair, which strictly contains the      *)
(* selection, starts at an opening and ends at its matching closing, and   *)
(* the result is absent when there is no enclosing pair.                   *)
(***************************************************************************)
\* the pair select_surrounding finds at the level asked for
FoundAtLevel ==
    SurroundingRange(buffer,
        find_surrounding(buffer, iterator_at(buffer, call.sel.cursor),
                         call.opening, call.closing, call.flags, call.level))

\* the call is an expansion: the pair found is the selection itself
C12Case ==
    /\ call.op = "select_surrounding"
    /\ call.opening # call.closing
    /\ call.flags = {"ToBegin", "ToEnd"}
    /\ FoundAtLevel.ok
    /\ min(FoundAtLevel.v) = min(call.sel)
    /\ max(FoundAtLevel.v) = max(call.sel)

\* the pairs of "[" and "]" that strictly enclose the offsets a..b
EnclosingPairs(s, a, b) ==
    {p \in (0..(a - 1)) \X ((b + 1)..(Len(s) - 1)) : Closes(s, p[1], p[2])}

\* the innermost of them, as a selection
RefParent(s, a, b) ==
    IF EnclosingPairs(s, a, b) = {} THEN None
    ELSE Some(utf8_range(s,
             (CHOOSE p \in EnclosingPairs(s, a, b) :
                 \A q \in EnclosingPairs(s, a, b) : q[1] <= p[1])[1],
             (CHOOSE p \in EnclosingPairs(s, a, b) :
                 \A q \in EnclosingPairs(s, a, b) : q[1] <= p[1])[2]))

\* C12: an expansion returns the enclosing pair
C12_ExpandsToEnclosingPair ==
    C12Case =>
      /\ result.ok =>
           /\ CoordLT(min(result.v), min(call.sel))
           /\ CoordLT(max(call.sel), max(result.v))
           /\ SpanBalanced(buffer, result.v, call.opening, call.closing)
      /\ call.opening = <<"[">> =>
           result = RefParent(buffer, iterator_at(buffer, min(call.sel)),
                              iterator_at(buffer, max(call.sel)))

(***************************************************************************)
(* C13: select_surrounding for the pair "[" "]" without Inner: with flags  *)
(* ToBegin and the cursor on "[" the result runs from the cursor back to   *)
(* the opening of the enclosing pair, with flags ToEnd and the cursor on   *)
(* "]" it runs on to the closing of the enclosing pair; it is absent when  *)
(* there is no enclosing pair and is never the cursor's character alone.   *)
(***************************************************************************)
C13Case(flag, ch) ==
    /\ call.op = "select_surrounding"
    /\ call.opening = <<"[">> /\ call.closing = <<"]">>
    /\ call.level = 0
    /\ call.flags = {flag}
    /\ At(buffer, iterator_at(buffer, call.sel.cursor)) = ch

\* the openings before pos that no closing before pos closes
OpenBefore(s, pos) ==
    {o \in 0..(pos - 1) :
        At(s, o) = "[" /\ \A c \in (o + 1)..(pos - 1) : ~Closes(s, o, c)}

\* the closings after pos that close no opening after pos
OpenAfter(s, pos) ==
    {c \in (pos + 1)..(Len(s) - 1) :
        At(s, c) = "]" /\ \A o \in (pos + 1)..(c - 1) : ~Closes(s, o, c)}

\* the selection from pos to the nearest offset of far, absent if far is empty
RefOutward(s, pos, far, nearest) ==
    IF far = {} THEN None
    ELSE Some(Sel(coord(s, pos), coord(s, nearest)))

\* C13, cursor on the opening with ToBegin
C13_GrowsToEnclosingOpening ==
    C13Case("ToBegin", "[") =>
      /\ result.ok => CoordLT(result.v.cursor, call.sel.cursor)
      /\ result = RefOutward(buffer, iterator_at(buffer, call.sel.cursor),
                     OpenBefore(buffer, iterator_at(buffer, call.sel.cursor)),
                     CHOOSE o \in OpenBefore(buffer, iterator_at(buffer, call.sel.cursor)) :
                        \A q \in OpenBefore(buffer, iterator_at(buffer, call.sel.cursor)) : q <= o)

\* C13, cursor on the closing with ToEnd
C13_GrowsToEnclosingClosing ==
    C13Case("ToEnd", "]") =>
      /\ result.ok => CoordLT(call.sel.cursor, result.v.cursor)
      /\ result = RefOutward(buffer, iterator_at(buffer, call.sel.cursor),
                     OpenAfter(buffer, iterator_at(buffer, call.sel.cursor)),
                     CHOOSE c \in OpenAfter(buffer, iterator_at(buffer, call.sel.cursor)) :
                        \A q \in OpenAfter(buffer, iterator_at(buffer, call.sel.cursor)) : c <= q)

\* C13: both boundary cases grow outward
C13_BoundaryGrowsOutward ==
    C13_GrowsToEnclosingOpening /\ C13_GrowsToEnclosingClosing

(***************************************************************************)
(* C14: find_surrounding with ToBegin|ToEnd|Inner: when there is content   *)
(* between the two delimiters found, the result runs from the first byte   *)
(* after the opening to the last byte before the closing; in every case    *)
(* first <= last and the result lies within the span found without Inner.  *)
(***************************************************************************)
C14Case ==
    /\ call.op = "find_surrounding"
    /\ call.flags = {"ToBegin", "ToEnd", "Inner"}
    /\ result.ok

\* the span the same call finds without Inner
OuterSpan ==
    find_surrounding(buffer, call.pos, call.opening, call.closing,
                     {"ToBegin", "ToEnd"}, call.level)

InnerOfOuter(outer, opening, closing, inner) ==
    /\ outer.ok
    /\ (outer.v[2] - outer.v[1] + 1 > Len(opening) + Len(closing))
         => inner = <<outer.v[1] + Len(opening), outer.v[2] - Len(closing)>>
    /\ inner[1] <= inner[2]
    /\ outer.v[1] <= inner[1]
    /\ inner[2] <= outer.v[2]

\* C14: the Inner result is the content of the outer span, and well formed
C14_InnerWithinOuter ==
    C14Case => InnerOfOuter(OuterSpan, call.opening, call.closing, result.v)

(***************************************************************************)
(* select_matching                                                         *)
(***************************************************************************)
MaxMatchingLen == 4

matching_pairs == <<"(", ")", "{", "}", "[", "]", "<", ">">>

\* std::find(matching_pairs.begin(), matching_pairs.end(), c) as a 0-based
\* index, the length of matching_pairs when c is not in it
FindPair(c) ==
    IF \E k \in DOMAIN matching_pairs : matching_pairs[k] = c
    THEN (CHOOSE k \in DOMAIN matching_pairs : matching_pairs[k] = c) - 1
    ELSE Len(matching_pairs)

\* the first loop: the first bracket from it on, before the end of the line
RECURSIVE MatchingBegin(_, _)
MatchingBegin(s, it) ==
    IF At(s, it) \in is_eol THEN None
    ELSE IF FindPair(At(s, it)) # Len(matching_pairs) THEN Some(it)
    ELSE MatchingBegin(s, it + 1)

\* the forward loop for an opener (mutant: the first closing is taken)
RECURSIVE MatchingForward(_, _, _, _, _)
MatchingForward_first_closing(s, it, opening, closing, level) ==
    IF it = Len(s) THEN None
    ELSE IF At(s, it) = closing THEN Some(it)
    ELSE MatchingForward(s, it + 1, opening, closing, level)

MatchingForward(s, it, opening, closing, level) ==
    IF it = Len(s) THEN None
    ELSE IF At(s, it) = opening
    THEN MatchingForward(s, it + 1, opening, closing, level + 1)
    ELSE IF At(s, it) = closing
    THEN (IF level - 1 = 0 THEN Some(it)
          ELSE MatchingForward(s, it + 1, opening, closing, level - 1))
    ELSE MatchingForward(s, it + 1, opening, closing, level)

\* the backward loop for a closer
RECURSIVE MatchingBackward(_, _, _, _, _)
MatchingStepBack(s, it, opening, closing, level) ==
    IF it = 0 THEN None
    ELSE MatchingBackward(s, it - 1, opening, closing, level)

MatchingBackward(s, it, opening, closing, level) ==
    IF At(s, it) = closing
    THEN MatchingStepBack(s, it, opening, closing, level + 1)
    ELSE IF At(s, it) = opening
    THEN (IF level - 1 = 0 THEN Some(it)
          ELSE MatchingStepBack(s, it, opening, closing, level - 1))
    ELSE MatchingStepBack(s, it, opening, closing, level)

\* the partner of the bracket at begin, whose index in matching_pairs is match
MatchingPartner(s, begin, match) ==
    IF match % 2 = 0
    THEN MatchingForward(s, begin, matching_pairs[match + 1],
                         matching_pairs[match + 2], 0)
    ELSE MatchingBackward(s, begin, matching_pairs[match],
                          matching_pairs[match + 1], 0)

MatchingRange(buf, begin, partner) ==
    IF partner.ok THEN Some(utf8_range(buf, begin, partner.v)) ELSE None

MatchingFrom(buf, begin) ==
    IF begin.ok
    THEN MatchingRange(buf, begin.v,
                       MatchingPartner(buf, begin.v, FindPair(At(buf, begin.v))))
    ELSE None

select_matching(buf, sel) ==
    MatchingFrom(buf, MatchingBegin(buf, iterator_at(buf, sel.cursor)))

\* buffers of two bracket types, a letter and newlines
MatchingBuffers ==
    {body \o <<"\n">> :
        body \in SeqsUpTo({"(", ")", "[", "]", "a", "\n"}, MaxMatchingLen)}

InitMatching ==
    /\ buffer \in MatchingBuffers
    /\ \E c \in ValidCoords(buffer) : selection = Sel(c, c)
    /\ selections = <<>>
    /\ result = None
    /\ call = NoCall
    /\ wrapped = FALSE
    /\ error = "none"

SelectMatching ==
    /\ call.op = "none"
    /\ result' = select_matching(buffer, selection)
    /\ call' = [op |-> "select_matching", sel |-> selection]
    /\ selection' = IF result'.ok THEN result'.v ELSE selection
    /\ UNCHANGED <<buffer, selections, wrapped, error>>

SpecMatching == InitMatching /\ [][SelectMatching]_vars

(***************************************************************************)
(* C15: select_matching anchors at the first bracket at or after the       *)
(* cursor on the cursor's line and puts the cursor on the partner that     *)
(* balances the brackets of that type between the two; it is absent        *)
(* exactly when the rest of the line has no bracket or the buffer ends     *)
(* before the nesting returns to zero.                                     *)
(***************************************************************************)
Openers == {"(", "{", "[", "<"}
Closers == {")", "}", "]", ">"}

PartnerOf(c) ==
    CASE c = "(" -> ")" [] c = ")" -> "("
      [] c = "{" -> "}" [] c = "}" -> "{"
      [] c = "[" -> "]" [] c = "]" -> "["
      [] c = "<" -> ">" [] c = ">" -> "<"

\* the brackets from pos to the end of the line of pos
BracketsOnLine(s, pos) ==
    {i \in pos..(LineStart(s, LineOf(s, pos) + 1) - 1) :
        At(s, i) \in Openers \cup Closers}

\* the offsets p on the far side of the bracket at b that hold its partner
\* with as many brackets of b's kind as partners in between, ends included
BalancedPartners(s, b) ==
    IF At(s, b) \in Openers
    THEN {p \in (b + 1)..(Len(s) - 1) :
             At(s, p) = PartnerOf(At(s, b)) /\
             CountIn(s, At(s, b), b, p) = CountIn(s, At(s, p), b, p)}
    ELSE {p \in 0..(b - 1) :
             At(s, p) = PartnerOf(At(s, b)) /\
             CountIn(s, At(s, b), p, b) = CountIn(s, At(s, p), p, b)}

\* the one nearest to b
NearestPartner(s, b, ps) ==
    CHOOSE p \in ps : \A q \in ps : IF b < p THEN p <= q ELSE q <= p

RefMatchingAt(s, b) ==
    IF BalancedPartners(s, b) = {} THEN None
    ELSE Some(utf8_range(s, b, NearestPartner(s, b, BalancedPartners(s, b))))

RefMatching(s, pos) ==
    IF BracketsOnLine(s, pos) = {} THEN None
    ELSE RefMatchingAt(s, CHOOSE b \in BracketsOnLine(s, pos) :
                             \A q \in BracketsOnLine(s, pos) : b <= q)

\* C15: select_matching agrees with the counting reference
C15_MatchingIsBalancedPartner ==
    call.op = "select_matching"
    => result = RefMatching(buffer, iterator_at(buffer, call.sel.cursor))

\* an opener that holds a nested pair of its own type: its partner is not the
\* first closing bracket
C15_Witness ==
    /\ call.op = "select_matching"
    /\ result.ok
    /\ iterator_at(buffer, result.v.cursor) - iterator_at(buffer, result.v.anchor) = 3
    /\ At(buffer, iterator_at(buffer, result.v.anchor) + 1)
          = At(buffer, iterator_at(buffer, result.v.anchor))

(***************************************************************************)
(* C16: select_to_line_end puts the result cursor on the last non-newline  *)
(* character of the cursor's line, also on an empty line and when the      *)
(* cursor is on the newline; the anchor is the original cursor, or the     *)
(* result cursor when only_move; the result cursor is never before the     *)
(* original cursor and never on another line.                              *)
(***************************************************************************)
\* the anchor rule and the two "never" parts of C16
LineEndShape ==
    /\ result.ok
    /\ result.v.anchor = (IF call.only_move THEN result.v.cursor ELSE call.sel.cursor)
    /\ CoordLE(call.sel.cursor, result.v.cursor)
    /\ result.v.cursor[1] = call.sel.cursor[1]

\* the cursor of the call is on the newline of its line
OnNewline == At(buffer, iterator_at(buffer, call.sel.cursor)) = "\n"

\* C16 as stated: the result cursor is always the last non-newline character
C16_LineEndIsLastNonNewline ==
    call.op = "select_to_line_end" =>
      /\ LineEndShape
      /\ result.v.cursor[2] = line_length(buffer, call.sel.cursor[1]) - 2
      /\ At(buffer, iterator_at(buffer, result.v.cursor)) # "\n"

\* C16 amended: so it is unless the cursor is on the newline, where the
\* result cursor is the original cursor
C16_LineEndOrStay ==
    call.op = "select_to_line_end" =>
      /\ LineEndShape
      /\ result.v.target = INT_MAX
      /\ ~OnNewline =>
           /\ result.v.cursor[2] = line_length(buffer, call.sel.cursor[1]) - 2
           /\ At(buffer, iterator_at(buffer, result.v.cursor)) # "\n"
      /\ OnNewline => result.v.cursor = call.sel.cursor

\* a cursor on the newline of a line that is not empty: the result cursor
\* stays on the newline
C16_Witness ==
    /\ call.op = "select_to_line_end"
    /\ ~call.only_move
    /\ OnNewline
    /\ line_length(buffer, call.sel.cursor[1]) >= 2
    /\ result.v.cursor = call.sel.cursor

(***************************************************************************)
(* C17: select_line returns, always, the line that holds the cursor, or    *)
(* the following line when the cursor is on a newline that is not the last *)
(* character of the buffer: the anchor is the character after the previous *)
(* newline (or the buffer start), the cursor is the last character before  *)
(* the next newline, and the cursor target is end-of-line.                 *)
(***************************************************************************)
\* the line select_line selects
SelectedLine ==
    IF OnNewline /\ iterator_at(buffer, call.sel.cursor) + 1 # Len(buffer)
    THEN call.sel.cursor[1] + 1 ELSE call.sel.cursor[1]

LineShape ==
    /\ result.ok
    /\ result.v.target = INT_MAX
    /\ result.v.anchor = <<SelectedLine, 0>>
    /\ result.v.cursor[1] = SelectedLine

\* C17 as stated: the cursor stops before the newline
C17_LineUpToNewline ==
    call.op = "select_line" =>
      /\ LineShape
      /\ line_length(buffer, SelectedLine) > 1
           => result.v.cursor[2] = line_length(buffer, SelectedLine) - 2

\* C17 amended: the cursor is on the newline that ends the line
C17_LineThroughNewline ==
    call.op = "select_line" =>
      /\ LineShape
      /\ result.v.cursor[2] = line_length(buffer, SelectedLine) - 1
      /\ At(buffer, iterator_at(buffer, result.v.cursor)) = "\n"

\* a cursor on the newline of a line that another, non-empty line follows
C17_Witness ==
    /\ call.op = "select_line"
    /\ OnNewline
    /\ SelectedLine = call.sel.cursor[1] + 1
    /\ result.v.cursor[2] >= 1

(***************************************************************************)
(* C18: trim_partial_lines moves a min that is not at column 0 to column 0 *)
(* of the next line and a max that is not at the last column of its line   *)
(* to the last column of the previous line; a present result covers only   *)
(* whole lines, lies within the input's [min, max], refers to existing     *)
(* lines and keeps the input's direction; the result is absent exactly     *)
(* when the input contains no complete line.                               *)
(***************************************************************************)
\* line l lies wholly inside sel
CompleteLineIn(buf, sel, l) ==
    /\ CoordLE(min(sel), <<l, 0>>)
    /\ CoordLE(<<l, line_length(buf, l) - 1>>, max(sel))

HasCompleteLine(buf, sel) ==
    \E l \in 0..(line_count(buf) - 1) : CompleteLineIn(buf, sel, l)

TrimmedMin(buf, sel) ==
    IF min(sel)[2] # 0 THEN <<min(sel)[1] + 1, 0>> ELSE min(sel)

TrimmedMax(buf, sel) ==
    IF max(sel)[2] # line_length(buf, max(sel)[1]) - 1
    THEN <<max(sel)[1] - 1, line_length(buf, max(sel)[1] - 1) - 1>>
    ELSE max(sel)

SameDirection(res, sel) ==
    IF CoordLE(sel.anchor, sel.cursor) THEN CoordLE(res.anchor, res.cursor)
    ELSE CoordLE(res.cursor, res.anchor)

\* C18: the trimmed selection, and when there is none
C18_TrimToWholeLines ==
    call.op = "trim_partial_lines" =>
      /\ result.ok <=> HasCompleteLine(buffer, call.sel)
      /\ result.ok =>
           /\ min(result.v) = TrimmedMin(buffer, call.sel)
           /\ max(result.v) = TrimmedMax(buffer, call.sel)
           /\ WholeLines(buffer, result.v)
           /\ CoordLE(min(call.sel), min(result.v))
           /\ CoordLE(max(result.v), max(call.sel))
           /\ result.v.anchor \in ValidCoords(buffer)
           /\ result.v.cursor \in ValidCoords(buffer)
           /\ SameDirection(result.v, call.sel)

\* a backward selection that starts and ends inside lines and holds a whole
\* line in between
C18_Witness ==
    /\ call.op = "trim_partial_lines"
    /\ call.prev.op = "none"
    /\ CoordLT(call.sel.cursor, call.sel.anchor)
    /\ call.sel.cursor[2] # 0
    /\ call.sel.anchor[2] # line_length(buffer, call.sel.anchor[1]) - 1
    /\ result.ok

(***************************************************************************)
(* select_indent                                                           *)
(***************************************************************************)
MaxIndentLen == 5

\* buffer[line]: the bytes of a line, its newline included
LineString(buf, l) == SubSeq(buf, LineStart(buf, l) + 1, LineStart(buf, l + 1))

\* the get_indent lambda, from the k-th byte of str on
RECURSIVE IndentFrom(_, _, _, _)
IndentFrom(str, k, indent, tabstop) ==
    IF k > Len(str) THEN indent
    ELSE IF str[k] = " " THEN IndentFrom(str, k + 1, indent + 1, tabstop)
    ELSE IF str[k] = "\t"
    THEN IndentFrom(str, k + 1, ((indent \div tabstop) + 1) * tabstop, tabstop)
    ELSE indent

get_indent(str, tabstop) == IndentFrom(str, 1, 0, tabstop)

is_only_whitespaces(str) == \A k \in DOMAIN str : str[k] \in {" ", "\t", "\n"}

\* the test both line loops make (mutant: an empty line ends the block)
IndentKeeps_no_empty(buf, l, indent, tabstop) ==
    get_indent(LineString(buf, l), tabstop) >= indent

IndentKeeps(buf, l, indent, tabstop) ==
    \/ LineString(buf, l) = <<"\n">>
    \/ get_indent(LineString(buf, l), tabstop) >= indent

RECURSIVE IndentBeginLine(_, _, _, _)
IndentBeginLine(buf, begin_line, indent, tabstop) ==
    IF begin_line >= 0 /\ IndentKeeps(buf, begin_line, indent, tabstop)
    THEN IndentBeginLine(buf, begin_line - 1, indent, tabstop)
    ELSE begin_line

RECURSIVE IndentEndLine(_, _, _, _)
IndentEndLine(buf, end_line, indent, tabstop) ==
    IF end_line < line_count(buf) /\ IndentKeeps(buf, end_line, indent, tabstop)
    THEN IndentEndLine(buf, end_line + 1, indent, tabstop)
    ELSE end_line

\* the two loops of the Inner mode
RECURSIVE InnerBeginLine(_, _, _)
InnerBeginLine(buf, begin_line, end_line) ==
    IF begin_line < end_line /\ is_only_whitespaces(LineString(buf, begin_line))
    THEN InnerBeginLine(buf, begin_line + 1, end_line)
    ELSE begin_line

RECURSIVE InnerEndLine(_, _, _)
InnerEndLine(buf, begin_line, end_line) ==
    IF begin_line < end_line /\ is_only_whitespaces(LineString(buf, end_line))
    THEN InnerEndLine(buf, begin_line, end_line - 1)
    ELSE end_line

\* the selection built from the two lines
IndentSelection(buf, pos, begin_line, end_line, flags) ==
    IF "ToEnd" \in flags
    THEN Some(Sel(IF "ToBegin" \in flags THEN <<begin_line, 0>> ELSE pos,
                  <<end_line, line_length(buf, end_line) - 1>>))
    ELSE Some(Sel(pos, IF "ToBegin" \in flags THEN <<begin_line, 0>> ELSE pos))

IndentInner(buf, pos, begin_line, end_line, flags) ==
    IF "Inner" \in flags
    THEN IndentSelection(buf, pos, InnerBeginLine(buf, begin_line, end_line),
             InnerEndLine(buf, InnerBeginLine(buf, begin_line, end_line), end_line),
             flags)
    ELSE IndentSelection(buf, pos, begin_line, end_line, flags)

IndentLines(buf, pos, indent, tabstop, flags) ==
    IndentInner(buf, pos,
        (IF "ToBegin" \in flags
         THEN IndentBeginLine(buf, pos[1] - 1, indent, tabstop) ELSE pos[1] - 1) + 1,
        (IF "ToEnd" \in flags
         THEN IndentEndLine(buf, pos[1] + 1, indent, tabstop) ELSE pos[1] + 1) - 1,
        flags)

select_indent(buf, sel, tabstop, flags) ==
    IndentLines(buf, sel.cursor,
                get_indent(LineString(buf, sel.cursor[1]), tabstop), tabstop, flags)

\* buffers of spaces, tabs, a letter and newlines
IndentBuffers ==
    {body \o <<"\n">> : body \in SeqsUpTo({" ", "\t", "a", "\n"}, MaxIndentLen)}

Tabstops == {2, 3}

InitIndent ==
    /\ buffer \in IndentBuffers
    /\ \E c \in ValidCoords(buffer) : selection = Sel(c, c)
    /\ selections = <<>>
    /\ result = None
    /\ call = NoCall
    /\ wrapped = FALSE
    /\ error = "none"

SelectIndent ==
    /\ call.op = "none"
    /\ \E tabstop \in Tabstops, flags \in ObjectFlags :
          /\ result' = select_indent(buffer, selection, tabstop, flags)
          /\ call' = [op |-> "select_indent", sel |-> selection,
                      tabstop |-> tabstop, flags |-> flags]
    /\ selection' = IF result'.ok THEN result'.v ELSE selection
    /\ UNCHANGED <<buffer, selections, wrapped, error>>

SpecIndent == InitIndent /\ [][SelectIndent]_vars

(***************************************************************************)
(* C19: select_indent with ToBegin|ToEnd spans column 0 of line b to the   *)
(* last column of line e, [b, e] being the largest run of lines around the *)
(* cursor line in which every line is blank (only its newline) or indented *)
(* at least as much as the cursor line; the lines next to the run are      *)
(* non-blank with a smaller indent.  With Inner the all-whitespace lines   *)
(* at both ends of the run are dropped, and the run never becomes empty.   *)
(***************************************************************************)
\* the visual indent of line l in the call's tabstop
IndentOf(l) == get_indent(LineString(buffer, l), call.tabstop)

BlankLine(l) == LineString(buffer, l) = <<"\n">>

\* line l may belong to the block of the cursor line
InBlock(l) == BlankLine(l) \/ IndentOf(l) >= IndentOf(call.sel.cursor[1])

\* the first and the last line of the block
BlockBegin ==
    CHOOSE b \in 0..call.sel.cursor[1] :
        /\ \A k \in b..(call.sel.cursor[1] - 1) : InBlock(k)
        /\ b > 0 => ~InBlock(b - 1)

BlockEnd ==
    CHOOSE e \in call.sel.cursor[1]..(line_count(buffer) - 1) :
        /\ \A k \in (call.sel.cursor[1] + 1)..e : InBlock(k)
        /\ e < line_count(buffer) - 1 => ~InBlock(e + 1)

WhitespaceLine(l) == is_only_whitespaces(LineString(buffer, l))

\* the result runs from column 0 of line b to the last column of line e
SpansLines(sel, b, e) ==
    /\ sel.anchor = <<b, 0>>
    /\ sel.cursor = <<e, line_length(buffer, e) - 1>>

C19Case(flags) ==
    /\ call.op = "select_indent"
    /\ call.flags = flags

\* C19: the block of the cursor line, and what Inner leaves of it
C19_IndentBlock ==
    /\ C19Case({"ToBegin", "ToEnd"}) =>
         /\ result.ok
         /\ SpansLines(result.v, BlockBegin, BlockEnd)
    /\ C19Case({"ToBegin", "ToEnd", "Inner"}) =>
         /\ result.ok
         /\ SpansLines(result.v, result.v.anchor[1], result.v.cursor[1])
         /\ BlockBegin <= result.v.anchor[1]
         /\ result.v.anchor[1] <= result.v.cursor[1]
         /\ result.v.cursor[1] <= BlockEnd
         /\ \A k \in BlockBegin..(result.v.anchor[1] - 1) : WhitespaceLine(k)
         /\ \A k \in (result.v.cursor[1] + 1)..BlockEnd : WhitespaceLine(k)
         /\ \/ result.v.anchor[1] = result.v.cursor[1]
            \/ /\ ~WhitespaceLine(result.v.anchor[1])
               /\ ~WhitespaceLine(result.v.cursor[1])

\* an indented cursor line with an empty line inside its block and a less
\* indented line next to it, the indent made with a tab
C19_Witness ==
    /\ C19Case({"ToBegin", "ToEnd"})
    /\ IndentOf(call.sel.cursor[1]) >= 2
    /\ result.v.cursor[1] > result.v.anchor[1]
    /\ \/ result.v.anchor[1] > 0
       \/ result.v.cursor[1] < line_count(buffer) - 1

(***************************************************************************)
(* select_to_next_word                                                     *)
(***************************************************************************)
MaxWordLen == 4

\* categorize<word_type>(c, extra_word_chars)
categorize(c, word_type, extra_word_chars) ==
    IF c \in is_eol THEN "EndOfLine"
    ELSE IF c \in is_horizontal_blank THEN "Blank"
    ELSE IF word_type = "WORD" \/ c \in is_word("Word", extra_word_chars) THEN "Word"
    ELSE "Punctuation"

\* the end of the selection: the run that the codepoint at begin starts, then
\* the blanks (mutant: the blanks are left out)
NextWordEnd_no_blanks(s, begin, word) ==
    IF At(s, begin) \in word
    THEN skip_while(s, begin + 1, Len(s), word)
    ELSE IF At(s, begin) \in Punctuation
    THEN skip_while(s, begin + 1, Len(s), Punctuation)
    ELSE begin + 1

NextWordEnd(s, begin, word) ==
    IF At(s, begin) \in word
    THEN skip_while(s, skip_while(s, begin + 1, Len(s), word), Len(s),
                    is_horizontal_blank)
    ELSE IF At(s, begin) \in Punctuation
    THEN skip_while(s, skip_while(s, begin + 1, Len(s), Punctuation), Len(s),
                    is_horizontal_blank)
    ELSE skip_while(s, begin + 1, Len(s), is_horizontal_blank)

\* select_to_next_word once the newlines are skipped
NextWordRange(buf, begin, word) ==
    IF begin = Len(buf) THEN None
    ELSE Some(utf8_range(buf, begin, NextWordEnd(buf, begin, word) - 1))

\* the class-adjusted start
NextWordStart(s, begin, word_type, extra_word_chars) ==
    IF categorize(At(s, begin), word_type, extra_word_chars)
         # categorize(At(s, begin + 1), word_type, extra_word_chars)
    THEN begin + 1 ELSE begin

NextWordFrom(buf, begin, word_type, extra_word_chars) ==
    IF begin + 1 = Len(buf) THEN None
    ELSE NextWordRange(buf,
             skip_while(buf, NextWordStart(buf, begin, word_type, extra_word_chars),
                        Len(buf), is_eol),
             is_word(word_type, extra_word_chars))

select_to_next_word(buf, sel, word_type, extra_word_chars) ==
    NextWordFrom(buf, iterator_at(buf, sel.cursor), word_type, extra_word_chars)

\* buffers of a letter, two punctuation characters, spaces and newlines
NextWordBuffers ==
    {body \o <<"\n">> : body \in SeqsUpTo({"a", ".", "-", " ", "\n"}, MaxWordLen)}

InitNextWord ==
    /\ buffer \in NextWordBuffers
    /\ \E c \in ValidCoords(buffer) : selection = Sel(c, c)
    /\ selections = <<>>
    /\ result = None
    /\ call = NoCall
    /\ wrapped = FALSE
    /\ error = "none"

SelectToNextWord ==
    /\ call.op = "none"
    /\ \E word_type \in {"Word", "WORD"}, extra \in ExtraWordChars :
          /\ result' = select_to_next_word(buffer, selection, word_type, extra)
          /\ call' = [op |-> "select_to_next_word", sel |-> selection,
                      word_type |-> word_type, extra_word_chars |-> extra]
    /\ selection' = IF result'.ok THEN result'.v ELSE selection
    /\ UNCHANGED <<buffer, selections, wrapped, error>>

SpecNextWord == InitNextWord /\ [][SelectToNextWord]_vars

(***************************************************************************)
(* C20: select_to_next_word is absent only when the cursor is on the last  *)
(* codepoint or only newlines follow the class-adjusted start; otherwise   *)
(* the result starts at the first non-newline codepoint from that start    *)
(* on, consists of one maximal run of word characters or of punctuation    *)
(* followed by the maximal run of horizontal blanks after it, and holds no *)
(* newline.                                                                *)
(***************************************************************************)
NextWordCursor == iterator_at(buffer, call.sel.cursor)

NextWordClass(k) == categorize(At(buffer, k), call.word_type, call.extra_word_chars)

\* the start after the class adjustment
AdjustedStart ==
    IF NextWordClass(NextWordCursor) # NextWordClass(NextWordCursor + 1)
    THEN NextWordCursor + 1 ELSE NextWordCursor

NonNewlinesFrom(k) == {j \in k..(Len(buffer) - 1) : At(buffer, j) # "\n"}

NextWordAbsent ==
    IF NextWordCursor = Len(buffer) - 1 THEN TRUE
    ELSE NonNewlinesFrom(AdjustedStart) = {}

FirstOfWord ==
    CHOOSE b \in NonNewlinesFrom(AdjustedStart) :
        \A j \in NonNewlinesFrom(AdjustedStart) : b <= j

\* the last offset of the longest stretch after b whose codepoints are in set
RunEnd(b, set) ==
    CHOOSE r \in b..(Len(buffer) - 1) :
        /\ \A k \in (b + 1)..r : At(buffer, k) \in set
        /\ r + 1 <= Len(buffer) - 1 => At(buffer, r + 1) \notin set

\* the end of the run that the codepoint at b starts
HeadEnd(b) ==
    IF At(buffer, b) \in is_word(call.word_type, call.extra_word_chars)
    THEN RunEnd(b, is_word(call.word_type, call.extra_word_chars))
    ELSE IF At(buffer, b) \in Punctuation THEN RunEnd(b, Punctuation)
    ELSE b

NextWordShape ==
    /\ result.ok <=> ~NextWordAbsent
    /\ result.ok =>
         /\ result.v = utf8_range(buffer, FirstOfWord,
                                  RunEnd(HeadEnd(FirstOfWord), is_horizontal_blank))
         /\ CoordLE(result.v.anchor, result.v.cursor)
         /\ \A k \in iterator_at(buffer, result.v.anchor)..iterator_at(buffer, result.v.cursor) :
               At(buffer, k) # "\n"

====
